---- MODULE Spec2Model ----
(***************************************************************************)
(* Model of osvcad's anchor geometry (osvcad/geometry.py): the transform   *)
(* computed from two anchors, the anchor propagation and the compound      *)
(* builder.                                                                *)
(*                                                                         *)
(* Numbers are exact rationals <<n, d>> in lowest terms with d > 0; the    *)
(* pair <<0, 0>> is NaN and is absorbing for every arithmetic operation,   *)
(* as an IEEE NaN is.  Angles are carried as their (cos, sin) pair, which  *)
(* is all rotation_matrix reads of them.  The inputs are drawn from        *)
(* directions whose norms and mutual cross products have rational norms,   *)
(* so every square root and arc cosine the code takes is exact.  The code  *)
(* computes in IEEE doubles: what is shown here holds of it up to rounding, *)
(* and the exact comparisons of the code (a cross product equal to zero, a *)
(* norm larger than another) are shown on inputs where rounding does not   *)
(* change their outcome.                                                   *)
(***************************************************************************)
EXTENDS Integers, Sequences, FiniteSets, TLC

\* ---------------------------------------------------------------- bounds
MaxScale == 3
MaxDistance == 1
MaxShapes == 3
MaxOps == 2
MaxLinks == 3

\* ------------------------------------------------------- exact arithmetic
Abs(n) == IF n < 0 THEN -n ELSE n

RECURSIVE GCD(_, _)
GCD(a, b) == IF b = 0 THEN a ELSE GCD(b, a % b)

NaN == <<0, 0>>
IsNaN(a) == a[2] = 0

Frac(n, d) ==
    IF d = 0 THEN NaN
    ELSE LET g == GCD(Abs(n), Abs(d))
             s == IF d < 0 THEN -1 ELSE 1
         IN <<(s * n) \div g, (s * d) \div g>>

Num(n) == <<n, 1>>
Zero == Num(0)
One == Num(1)

Add(a, b) == IF IsNaN(a) \/ IsNaN(b) THEN NaN
             ELSE Frac(a[1] * b[2] + b[1] * a[2], a[2] * b[2])
Neg(a) == IF IsNaN(a) THEN NaN ELSE <<-a[1], a[2]>>
Sub(a, b) == Add(a, Neg(b))
Mul(a, b) == IF IsNaN(a) \/ IsNaN(b) THEN NaN
             ELSE Frac(a[1] * b[1], a[2] * b[2])
\* x / 0 is reached only as 0 / 0 (a vector divided by its own zero norm)
Div(a, b) == IF IsNaN(a) \/ IsNaN(b) THEN NaN
             ELSE Frac(a[1] * b[2], a[2] * b[1])
\* comparisons with NaN are false
Leq(a, b) == ~IsNaN(a) /\ ~IsNaN(b) /\ a[1] * b[2] <= b[1] * a[2]
Gt(a, b) == ~IsNaN(a) /\ ~IsNaN(b) /\ a[1] * b[2] > b[1] * a[2]

IsSquare(n) == n >= 0 /\ \E r \in 0..n : r * r = n
ISqrt(n) == CHOOSE r \in 0..n : r * r = n
Sqrt(a) == IF IsNaN(a) THEN NaN ELSE <<ISqrt(a[1]), ISqrt(a[2])>>
HasSqrt(a) == ~IsNaN(a) /\ IsSquare(a[1]) /\ IsSquare(a[2])

\* ---------------------------------------------------------------- vectors
Vec(x, y, z) == <<Num(x), Num(y), Num(z)>>
ZeroVec == Vec(0, 0, 0)
VAdd(u, v) == <<Add(u[1], v[1]), Add(u[2], v[2]), Add(u[3], v[3])>>
VScale(u, c) == <<Mul(u[1], c), Mul(u[2], c), Mul(u[3], c)>>
VNeg(u) == <<Neg(u[1]), Neg(u[2]), Neg(u[3])>>
Dot(u, v) == Add(Add(Mul(u[1], v[1]), Mul(u[2], v[2])), Mul(u[3], v[3]))
\* np.cross
Cross(u, v) == <<Sub(Mul(u[2], v[3]), Mul(u[3], v[2])),
                 Sub(Mul(u[3], v[1]), Mul(u[1], v[3])),
                 Sub(Mul(u[1], v[2]), Mul(u[2], v[1]))>>
\* np.linalg.norm
Norm(u) == Sqrt(Dot(u, u))
HasNorm(u) == HasSqrt(Dot(u, u))
VecHasNaN(u) == \E i \in 1..3 : IsNaN(u[i])

\* --------------------------------------------------------------- matrices
Identity4 == <<<<One, Zero, Zero, Zero>>, <<Zero, One, Zero, Zero>>,
               <<Zero, Zero, One, Zero>>, <<Zero, Zero, Zero, One>>>>
\* one entry and one row of a product with a 4 x 4 matrix
Entry(r, B, j) == Add(Add(Mul(r[1], B[1][j]), Mul(r[2], B[2][j])),
                      Add(Mul(r[3], B[3][j]), Mul(r[4], B[4][j])))
RowMul(r, B) == <<Entry(r, B, 1), Entry(r, B, 2), Entry(r, B, 3), Entry(r, B, 4)>>
\* the arguments of a call are computed once, before the call: the value of
\* the one-element set of results
Value(S) == CHOOSE x \in S : TRUE
\* np.dot of a 4 x 4 (or 3 x 4) matrix by a 4 x 4 matrix
MatMul(A, B) ==
    Value({IF Len(a) = 3
           THEN <<RowMul(a[1], b), RowMul(a[2], b), RowMul(a[3], b)>>
           ELSE <<RowMul(a[1], b), RowMul(a[2], b), RowMul(a[3], b),
                  RowMul(a[4], b)>> : a \in {A}, b \in {B}})
\* M[:3]
Rows3(M) == <<M[1], M[2], M[3]>>
\* M[:3, :3]
Block3(M) == <<<<M[1][1], M[1][2], M[1][3]>>,
               <<M[2][1], M[2][2], M[2][3]>>,
               <<M[3][1], M[3][2], M[3][3]>>>>
Transpose3(R) == <<<<R[1][1], R[2][1], R[3][1]>>,
                   <<R[1][2], R[2][2], R[3][2]>>,
                   <<R[1][3], R[2][3], R[3][3]>>>>
\* np.dot(v, R) for a row vector v and a 3 x 3 matrix R
RowEntry(v, R, j) == Add(Add(Mul(v[1], R[1][j]), Mul(v[2], R[2][j])),
                         Mul(v[3], R[3][j]))
RowTimes(v, R) == <<RowEntry(v, R, 1), RowEntry(v, R, 2), RowEntry(v, R, 3)>>
\* R v for a column vector v
MatVec(R, v) == <<Dot(R[1], v), Dot(R[2], v), Dot(R[3], v)>>
\* the last column of a 3 x 4 or 4 x 4 matrix
Translation(M) == <<M[1][4], M[2][4], M[3][4]>>
MatHasNaN(M) == \E i \in 1..Len(M) : \E j \in 1..Len(M[i]) : IsNaN(M[i][j])

\* ----------------------------------------------------------------- angles
\* an angle is the pair of its cosine and sine
Angle(c, s) == [cos |-> c, sin |-> s]
NaNAngle == Angle(NaN, NaN)
ZeroAngle == Angle(One, Zero)
\* np.pi
Pi == Angle(Num(-1), Zero)
AngleSum(a, b) == Angle(Sub(Mul(a.cos, b.cos), Mul(a.sin, b.sin)),
                        Add(Mul(a.sin, b.cos), Mul(a.cos, b.sin)))
\* np.arccos: the angle of [0, pi] with the given cosine
ArcCos(c) == IF IsNaN(c) THEN NaNAngle
             ELSE Angle(c, Sqrt(Sub(One, Mul(c, c))))
\* np.radians, on the multiples of 90 degrees
Radians(deg) ==
    LET q == (deg \div 90) % 4
    IN CASE q = 0 -> Angle(One, Zero)
         [] q = 1 -> Angle(Zero, One)
         [] q = 2 -> Angle(Num(-1), Zero)
         [] q = 3 -> Angle(Zero, Num(-1))

\* ------------------------------------------------------------- the state
VARIABLES
    pc,                 \* what has been called so far
    anchor_master,      \* [position, direction] of the master anchor
    anchor_slave,       \* [position, direction] of the slave anchor
    angle,              \* degrees
    distance,
    degenerate_fails,   \* what osvcad.transformations does with a zero vector
    transformation_mat, \* outcome of transformation_from_2_anchors
    new_anchor,         \* outcome of transform_anchor on the slave anchor
    remated_mat,        \* outcome of mating the transformed slave again
    shapes,             \* argument of compound
    checked,            \* how many elements compound's first loop has passed
    comp,               \* content of the TopoDS_Compound being built
    solid               \* outcome of compound

VARIABLES
    self_part,          \* the Part the operations are called on
    other_part,         \* the Part given to place as `other`
    last_op,            \* the last Part operation, its arguments and outcome
    op_count            \* how many Part operations were called

part_vars == <<self_part, other_part, last_op, op_count>>

VARIABLES
    arrow               \* what DisplayVector has put on display

VARIABLES
    links,              \* the edges recorded by Assembly.link
    asm_pc,             \* where the assembly is: building, resolving, done
    node_state,         \* Unresolved, Resolving or Resolved, per part
    world,              \* the parts as transformed so far by the pass
    processed,          \* the edges the pass has applied
    current,            \* the edge being applied
    result,             \* what resolve returned
    previous            \* what the resolve before it returned

asm_vars == <<links, asm_pc, node_state, world, processed, current, result,
              previous>>

VARIABLES
    fs,                 \* the file system: the names listed in each directory
    fs_changes,         \* how many times the file system was changed
    model_root_folder,  \* model.root_folder
    has_root,           \* whether the tree has a root item
    root_data,          \* the data (path) of the root item
    children,           \* the child items of each folder item of the tree
    tree_event          \* the last handler called, its arguments and outcome

tree_vars == <<fs, fs_changes, model_root_folder, has_root, root_data,
               children, tree_event>>

caller_vars == <<part_vars, arrow, asm_vars, tree_vars>>

vars == <<pc, anchor_master, anchor_slave, angle, distance, degenerate_fails,
          transformation_mat, new_anchor, remated_mat,
          shapes, checked, comp, solid, part_vars, arrow, asm_vars,
          tree_vars>>

\* ------------------------------------- osvcad.transformations (not in src)
\* translation_matrix: identity with the last column set to the vector
translation_matrix(direction) ==
    <<<<One, Zero, Zero, direction[1]>>,
      <<Zero, One, Zero, direction[2]>>,
      <<Zero, Zero, One, direction[3]>>,
      <<Zero, Zero, Zero, One>>>>

\* unit_vector: the vector over its norm (0 / 0 = NaN for the zero vector)
unit_vector(v) ==
    Value({Value({<<Div(w[1], n), Div(w[2], n), Div(w[3], n)>> :
                  n \in {Norm(w)}}) : w \in {v}})

\* rotation_matrix: right-handed rotation by `a` about the normalized axis,
\* R = cos I + (1 - cos) n n^T + sin [n]x
rotation_matrix(a, direction) ==
    Value({LET skew == <<<<Zero, Neg(n[3]), n[2]>>,
                         <<n[3], Zero, Neg(n[1])>>,
                         <<Neg(n[2]), n[1], Zero>>>>
               r(i, j) == Add(Add(IF i = j THEN t.cos ELSE Zero,
                                  Mul(Mul(n[i], n[j]), Sub(One, t.cos))),
                              Mul(t.sin, skew[i][j]))
           IN <<<<r(1, 1), r(1, 2), r(1, 3), Zero>>,
                <<r(2, 1), r(2, 2), r(2, 3), Zero>>,
                <<r(3, 1), r(3, 2), r(3, 3), Zero>>,
                <<Zero, Zero, Zero, One>>>> :
           t \in {a}, n \in {unit_vector(direction)}})

\* angle_between_vectors: arccos(u.v / (|u| |v|)), in [0, pi]
angle_between_vectors(v0, v1) ==
    ArcCos(Div(Dot(v0, v1), Mul(Norm(v0), Norm(v1))))

\* A zero vector: the design says angle_between fails; the caller in
\* geometry.py tests the result for NaN.  Both outcomes are kept.
angle_between_raises(v0, v1) ==
    degenerate_fails /\ (v0 = ZeroVec \/ v1 = ZeroVec)

\* vector_product
vector_product(v0, v1) == Cross(v0, v1)

\* ------------------------------------------ transformation_from_2_anchors
Raised(e) == [status |-> e, mat |-> <<>>]
Returned(m) == [status |-> "ok", mat |-> m]

\* the same-way case forgotten: never a correction
angle_correction_never(master_dir, slave_dir) == ZeroAngle

\* lines 88-91: pi when the sum of the directions is longer than the master's
angle_correction_of(master_dir, slave_dir) ==
    LET norm_of_sum == Norm(VAdd(master_dir, slave_dir))
    IN IF Gt(norm_of_sum, Norm(master_dir)) THEN Pi ELSE ZeroAngle

\* world X whatever the master direction
k_always_x(master_dir) == Vec(1, 0, 0)

\* lines 94-99: world X, or world Y when the master direction is along X
k_of(master_dir) ==
    IF Cross(Vec(1, 0, 0), master_dir) = ZeroVec
    THEN Vec(0, 1, 0) ELSE Vec(1, 0, 0)

\* the operands of the cross product exchanged
axis_dir_of_master_first(master_dir, slave_dir) ==
    LET axis_dir == vector_product(master_dir, slave_dir)
    IN IF axis_dir = ZeroVec
       THEN Cross(master_dir, k_of(master_dir))
       ELSE axis_dir

\* lines 76-103: the rotation axis
axis_dir_of(master_dir, slave_dir) ==
    LET axis_dir == vector_product(master_dir, slave_dir)
    IN IF axis_dir = ZeroVec
       THEN Cross(k_of(master_dir), master_dir)
       ELSE axis_dir

\* lines 79-91: the correction is taken in the zero cross product branch only
angle_correction(master_dir, slave_dir) ==
    IF vector_product(master_dir, slave_dir) = ZeroVec
    THEN angle_correction_of(master_dir, slave_dir)
    ELSE ZeroAngle

\* -a % np.pi for a in [0, pi]: 0 at both ends, pi - a in between
NegModPi(a) ==
    IF IsNaN(a.cos) THEN NaNAngle
    ELSE IF a.sin = Zero THEN ZeroAngle
    ELSE Angle(Neg(a.cos), a.sin)

\* line 107
rot_angle(angle_anchors, correction) ==
    AngleSum(NegModPi(angle_anchors), correction)

\* lines 110-115: slave position to origin, rotate, origin to master position
transformation_mat_anchors_opposition(master, slave) ==
    LET trans_slave_to_orig == VNeg(slave.position)
        angle_anchors == angle_between_vectors(master.direction,
                                               slave.direction)
        rot_matrix_anchors_opposition ==
            rotation_matrix(
                rot_angle(angle_anchors,
                          angle_correction(master.direction, slave.direction)),
                axis_dir_of(master.direction, slave.direction))
        trans_orig_to_master == master.position
    IN MatMul(translation_matrix(trans_orig_to_master),
              MatMul(rot_matrix_anchors_opposition,
                     translation_matrix(trans_slave_to_orig)))

\* lines 122-123
unit_anchor_direction(master) ==
    LET n == Norm(master.direction)
    IN <<Div(master.direction[1], n), Div(master.direction[2], n),
         Div(master.direction[3], n)>>

\* the check on the unit direction left out
unit_norm_unchecked(u) == TRUE

\* line 127: 1 - 1e-6 <= norm <= 1 + 1e-6
Tolerance == Frac(1, 1000000)
unit_norm_ok(u) ==
    LET n == Norm(u)
    IN Leq(Sub(One, Tolerance), n) /\ Leq(n, Add(One, Tolerance))

\* the offset along the master direction left out
transformation_mat_near_anchor_no_offset(master, a, d) ==
    Rows3(MatMul(translation_matrix(master.position),
                 MatMul(rotation_matrix(Radians(a), master.direction),
                        translation_matrix(VNeg(master.position)))))

\* lines 118-136: master position to origin, rotate about the master
\* direction, origin to master position + unit direction * distance
transformation_mat_near_anchor(master, a, d) ==
    LET trans_master_to_orig == VNeg(master.position)
        rot_matrix_around_anchor ==
            rotation_matrix(Radians(a), master.direction)
    IN Rows3(MatMul(
          translation_matrix(
              VAdd(master.position,
                   VScale(unit_anchor_direction(master), Num(d)))),
          MatMul(rot_matrix_around_anchor,
                 translation_matrix(trans_master_to_orig))))

\* the two transforms composed the other way round
transformation_from_2_anchors_opposition_last(master, slave, a, d) ==
    IF angle_between_raises(master.direction, slave.direction)
    THEN Raised("DegenerateInputError")
    ELSE IF ~unit_norm_ok(unit_anchor_direction(master))
    THEN Raised("AssertionError")
    ELSE LET near == transformation_mat_near_anchor(master, a, d)
         IN Returned(Rows3(MatMul(
                transformation_mat_anchors_opposition(master, slave),
                <<near[1], near[2], near[3], <<Zero, Zero, Zero, One>>>>)))

\* lines 28-142
transformation_from_2_anchors(master, slave, a, d) ==
    IF angle_between_raises(master.direction, slave.direction)
    THEN Raised("DegenerateInputError")
    ELSE IF ~unit_norm_ok(unit_anchor_direction(master))
    THEN Raised("AssertionError")
    ELSE Returned(Rows3(MatMul(
            transformation_mat_near_anchor(master, a, d),
            transformation_mat_anchors_opposition(master, slave))))

\* the translation added to the direction as well
transform_anchor_translating_direction(anchor, transformation_matrix) ==
    LET translation_vec == <<transformation_matrix[1][4],
                             transformation_matrix[2][4],
                             transformation_matrix[3][4]>>
        matrix_3x3 == Block3(transformation_matrix)
    IN [position |-> VAdd(RowTimes(anchor.position, Transpose3(matrix_3x3)),
                          translation_vec),
        direction |-> VAdd(RowTimes(anchor.direction, Transpose3(matrix_3x3)),
                           translation_vec)]

\* the rotation block used without the transposition
transform_anchor_untransposed(anchor, transformation_matrix) ==
    LET translation_vec == <<transformation_matrix[1][4],
                             transformation_matrix[2][4],
                             transformation_matrix[3][4]>>
        matrix_3x3 == Block3(transformation_matrix)
    IN [position |-> VAdd(RowTimes(anchor.position, matrix_3x3),
                          translation_vec),
        direction |-> RowTimes(anchor.direction, matrix_3x3)]

\* ------------------------------------------------------- transform_anchor
\* lines 145-170
transform_anchor(anchor, transformation_matrix) ==
    LET translation_vec == <<transformation_matrix[1][4],
                             transformation_matrix[2][4],
                             transformation_matrix[3][4]>>
        matrix_3x3 == Block3(transformation_matrix)
    IN [position |-> VAdd(RowTimes(anchor.position, Transpose3(matrix_3x3)),
                          translation_vec),
        direction |-> RowTimes(anchor.direction, Transpose3(matrix_3x3))]

\* --------------------------------------------------------------- compound
\* what a caller may put in the list: ccad Shapes (with their TopoDS shape)
\* and one object that is no Shape
shape_a == [is_shape |-> TRUE, shape |-> "topo_a"]
shape_b == [is_shape |-> TRUE, shape |-> "topo_b"]
not_a_shape == [is_shape |-> FALSE, shape |-> "none"]
Items == {shape_a, shape_b, not_a_shape}

RECURSIVE SeqsUpTo(_)
SeqsUpTo(n) ==
    IF n = 0 THEN {<<>>}
    ELSE LET shorter == SeqsUpTo(n - 1)
         IN shorter \cup {Append(q, x) : q \in {r \in shorter : Len(r) = n - 1},
                                         x \in Items}

NoCompound == [made |-> FALSE, content |-> <<>>]
NoSolid == [status |-> "none", content |-> <<>>]

\* ------------------------------------------------------------ the inputs
BaseDirections == {<<1, 0, 0>>, <<0, 0, 1>>, <<3, 4, 0>>}
Directions ==
    {Vec(c * b[1], c * b[2], c * b[3]) :
        c \in -MaxScale..MaxScale, b \in BaseDirections}
MasterPositions == {Vec(0, 0, 0), Vec(1, -2, 3)}
SlavePositions == {Vec(-1, 0, 2)}
Angles == {-90, 0, 90, 180}
Distances == -MaxDistance..MaxDistance

\* every norm the code takes of these directions is rational
Exact(master_dir, slave_dir) ==
    /\ HasNorm(master_dir) /\ HasNorm(slave_dir)
    /\ HasNorm(Cross(master_dir, slave_dir))
    /\ HasNorm(VAdd(master_dir, slave_dir))
       \/ Cross(master_dir, slave_dir) # ZeroVec

NoAnchor == [position |-> ZeroVec, direction |-> ZeroVec]
NoMat == [status |-> "none", mat |-> <<>>]

\* what the Part operations leave alone
\* ------------------------------------------- Assembly: nothing built yet
PartNames == {"root", "A", "B"}
\* a part with its two mating anchors on the same point, back to back
plate_anchors ==
    [top |-> [position |-> Vec(0, 0, 0), direction |-> Vec(0, 0, 1)],
     bottom |-> [position |-> Vec(0, 0, 0), direction |-> Vec(0, 0, -1)]]
NoLink == [master |-> "", slave |-> ""]
NoResult == [status |-> "none", mapping |-> <<>>]
AllUnresolved ==
    [root |-> "Unresolved", A |-> "Unresolved", B |-> "Unresolved"]
NoWorld == <<>>
NoAssembly ==
    /\ links = {} /\ asm_pc = "building"
    /\ node_state = AllUnresolved
    /\ world = NoWorld
    /\ processed = {} /\ current = NoLink
    /\ result = NoResult /\ previous = NoResult

\* ------------------------------------------------ Tree: nothing shown yet
MaxDepth == 1
MaxChanges == 2

\* the names a directory may list, in the order of Python's str comparison
\* ('_' before the lower case letters, '.' before them too)
NameOrder == <<"__pycache__", "a.txt", "b.py", "bak.txt", "docs">>
Names == {NameOrder[i] : i \in 1..Len(NameOrder)}
\* the names that are directories: isdir(join(directory, f))
DirNames == {"__pycache__", "bak.txt", "docs"}
\* a path is the sequence of the names below the top folder
RECURSIVE PathsOfLength(_)
PathsOfLength(n) ==
    IF n = 0 THEN {<<>>}
    ELSE {Append(p, f) : p \in PathsOfLength(n - 1),
                         f \in DirNames \ {"__pycache__"}}
Paths == UNION {PathsOfLength(n) : n \in 0..MaxDepth}
NoFolder == <<"">>

Front(p) == SubSeq(p, 1, Len(p) - 1)
Last(p) == p[Len(p)]

\* os.path.isdir on a path
RECURSIVE isdir(_, _)
isdir(files, p) ==
    IF p = <<>> THEN TRUE
    ELSE /\ Last(p) \in DirNames
         /\ Front(p) \in Paths
         /\ Last(p) \in files[Front(p)]
         /\ isdir(files, Front(p))

InitialFs ==
    [p \in Paths |->
        IF p = <<>> THEN {"__pycache__", "a.txt", "bak.txt", "docs"}
        ELSE IF p = <<"docs">> THEN {"a.txt", "b.py"}
        ELSE {}]

NoChildren == [p \in Paths |-> <<>>]
NoEvent == [kind |-> "none", item |-> <<>>, sender |-> "", status |-> "none",
            before |-> NoChildren, fs |-> InitialFs]
NoTree ==
    /\ fs = InitialFs /\ fs_changes = 0
    /\ model_root_folder = NoFolder
    /\ has_root = FALSE /\ root_data = NoFolder
    /\ children = NoChildren
    /\ tree_event = NoEvent

NoArrow == [status |-> "none", origin |-> ZeroVec, direction |-> ZeroVec,
            base |-> ZeroVec, neck |-> ZeroVec, tip |-> ZeroVec]

calls_unchanged_but_assembly ==
    UNCHANGED <<pc, anchor_master, anchor_slave, angle, distance,
                degenerate_fails, transformation_mat, new_anchor, remated_mat,
                shapes, checked, comp, solid, arrow, tree_vars>>
calls_unchanged ==
    calls_unchanged_but_assembly /\ UNCHANGED asm_vars

\* ------------------------------------------------- Part (osvcad.nodes)
\* A Part is its anchors and its geometry; the geometry handle is held as
\* the rigid transform applied so far to the solid it was built from.
\* The cube of the examples: anchors on its top and bottom faces.
AnchorNames == {"top", "bottom"}
box_anchors ==
    [top |-> [position |-> Vec(1, 1, 2), direction |-> Vec(0, 0, 1)],
     bottom |-> [position |-> Vec(1, 1, 0), direction |-> Vec(0, 0, -1)]]
box_part == [anchors |-> box_anchors, geometry |-> Identity4]

NoOp == [kind |-> "none", status |-> "none", self_anchor |-> "",
         other_anchor |-> "", angle |-> 0, distance |-> 0,
         before |-> box_part]

\* the 4 x 4 matrix of a 3 x 4 one
Square(M) == <<M[1], M[2], M[3], <<Zero, Zero, Zero, One>>>>

\* a rigid transform applied to the geometry and to every anchor
Part_transform(part, M) ==
    Value({[anchors |->
               [top |-> transform_anchor(part.anchors.top, Rows3(m)),
                bottom |-> transform_anchor(part.anchors.bottom, Rows3(m))],
            geometry |-> MatMul(m, part.geometry)] : m \in {M}})

\* Part.translate(delta)
Part_translate(part, delta) ==
    Part_transform(part, translation_matrix(delta))

\* Part.rotate(angle, axis, origin): rotation about the line through origin
Part_rotate(part, a, axis, origin) ==
    Part_transform(part,
        MatMul(translation_matrix(origin),
               MatMul(rotation_matrix(Radians(a), axis),
                      translation_matrix(VNeg(origin)))))

\* self taken as the slave and other as the master
place_roles_swapped(self_side, other_side) ==
    [master |-> other_side, slave |-> self_side]

\* node_3 = node_1.place(self_anchor, other = node_2, other_anchor): the node
\* returned is node_2 transformed (visual_testing.py, line 46), and the next
\* cube is put on the pile (boxes_pileup.py, lines 47-51): self is the
\* master and other the slave
place_roles(self_side, other_side) ==
    [master |-> self_side, slave |-> other_side]

\* an absent name answered with the first anchor instead of an error
Part_place_default_anchor(part, self_anchor, other, other_anchor, a, d) ==
    LET sa == IF self_anchor \in DOMAIN part.anchors THEN self_anchor
              ELSE "top"
        oa == IF other_anchor \in DOMAIN other.anchors THEN other_anchor
              ELSE "top"
    IN Value({Value({IF t.status # "ok"
                     THEN [status |-> t.status, part |-> other]
                     ELSE [status |-> "ok",
                           part |-> Part_transform(other, Square(t.mat))] :
                     t \in {transformation_from_2_anchors(m, s, a, d)}}) :
              m \in {part.anchors[sa]}, s \in {other.anchors[oa]}})

\* Part.place(self_anchor, other, other_anchor, angle, distance): status is
\* the outcome, part what the caller holds for other after the call
Part_place(part, self_anchor, other, other_anchor, a, d) ==
    IF self_anchor \notin DOMAIN part.anchors
       \/ other_anchor \notin DOMAIN other.anchors
    THEN [status |-> "UnknownAnchorError", part |-> other]
    ELSE LET r == place_roles([part |-> part, anchor |-> self_anchor],
                              [part |-> other, anchor |-> other_anchor])
         IN Value({Value({IF t.status # "ok"
                          THEN [status |-> t.status, part |-> other]
                          ELSE [status |-> "ok",
                                part |-> Part_transform(r.slave.part,
                                                        Square(t.mat))] :
                          t \in {transformation_from_2_anchors(m, s, a, d)}}) :
                   m \in {r.master.part.anchors[r.master.anchor]},
                   s \in {r.slave.part.anchors[r.slave.anchor]}})

Deltas == {Vec(2, 0, -1), Vec(0, 3, 0)}
Axes == {Vec(1, 0, 0), Vec(0, 0, 1)}
Origins == {Vec(0, 0, 0), Vec(1, 0, 1)}
RightAngles == {90}
PlaceAngles == {0, 90}
PlaceDistances == {0, 1}
NameArguments == AnchorNames \cup {"missing"}

\* the parts of the examples are built, then translated and rotated; self is
\* the receiver of place, other the part the caller goes on with
InitPart ==
    /\ pc = "idle"
    /\ degenerate_fails = FALSE
    /\ anchor_master = NoAnchor /\ anchor_slave = NoAnchor
    /\ angle = 0 /\ distance = 0
    /\ transformation_mat = NoMat
    /\ new_anchor = NoAnchor
    /\ remated_mat = NoMat
    /\ shapes = <<>> /\ checked = 0
    /\ comp = NoCompound /\ solid = NoSolid
    /\ self_part \in
         {Part_rotate(Part_translate(box_part, delta), a, Vec(1, 0, 0),
                      Vec(0, 0, 0)) :
             delta \in {Vec(2, 0, -1)}, a \in {0, 90}}
    /\ other_part = box_part
    /\ last_op = NoOp /\ op_count = 0
    /\ arrow = NoArrow
    /\ NoAssembly
    /\ NoTree

Done(kind, status, before) ==
    [kind |-> kind, status |-> status, self_anchor |-> "",
     other_anchor |-> "", angle |-> 0, distance |-> 0, before |-> before]

\* other = other.translate(delta)
translate ==
    /\ op_count < MaxOps
    /\ \E delta \in Deltas :
         other_part' = Part_translate(other_part, delta)
    /\ last_op' = Done("translate", "ok", other_part)
    /\ op_count' = op_count + 1
    /\ UNCHANGED self_part
    /\ calls_unchanged

\* other = other.rotate(angle, axis, origin)
rotate ==
    /\ op_count < MaxOps
    /\ \E a \in RightAngles, axis \in Axes, origin \in Origins :
         other_part' = Part_rotate(other_part, a, axis, origin)
    /\ last_op' = Done("rotate", "ok", other_part)
    /\ op_count' = op_count + 1
    /\ UNCHANGED self_part
    /\ calls_unchanged

\* other = self.place(self_anchor, other, other_anchor, angle, distance)
place ==
    /\ op_count < MaxOps
    /\ \E sa \in NameArguments, oa \in NameArguments,
          a \in PlaceAngles, d \in PlaceDistances :
         \E r \in {Part_place(self_part, sa, other_part, oa, a, d)} :
            /\ other_part' = r.part
            /\ last_op' = [kind |-> "place", status |-> r.status,
                           self_anchor |-> sa, other_anchor |-> oa,
                           angle |-> a, distance |-> d, before |-> other_part]
    /\ op_count' = op_count + 1
    /\ UNCHANGED self_part
    /\ calls_unchanged

NextPart ==
    \/ translate
    \/ rotate
    \/ place

SpecPart == InitPart /\ [][NextPart]_vars

\* ------------------------------------------------ Assembly (osvcad.nodes)
plate_part == [anchors |-> plate_anchors, geometry |-> Identity4]

\* the parts as built, before any link is resolved
built ==
    [root |-> Part_translate(plate_part, Vec(1, -2, 3)),
     A |-> Part_translate(
               Part_rotate(plate_part, 90, Vec(1, 0, 0), Vec(0, 0, 0)),
               Vec(0, 3, 0)),
     B |-> plate_part]

\* ConstraintAnchor(anchor_name_master, anchor_name_slave, distance, angle)
unit_constraint ==
    [anchor_name_master |-> "top", anchor_name_slave |-> "bottom",
     distance |-> 1, angle |-> 0]

\* the graph
Parts == {"root"} \cup {l.master : l \in links} \cup {l.slave : l \in links}
Incoming(n) == {l \in links : l.slave = n}
Step(S) == S \cup {l.slave : l \in {k \in links : k.master \in S}}
RECURSIVE ReachN(_, _)
ReachN(S, k) == IF k = 0 THEN S ELSE ReachN(Step(S), k - 1)
\* n and every part under it
Below(n) == ReachN({n}, Cardinality(PartNames))

\* Assembly.link(master, slave, constraint): one more edge
Assembly_link ==
    /\ asm_pc = "building"
    /\ Cardinality(links) < MaxLinks
    /\ \E m \in PartNames, sl \in PartNames :
         /\ [master |-> m, slave |-> sl] \notin links
         /\ links' = links \cup {[master |-> m, slave |-> sl]}
    /\ UNCHANGED <<asm_pc, node_state, world, processed, current, result,
                   previous>>
    /\ UNCHANGED part_vars /\ calls_unchanged_but_assembly

\* the start of a resolution pass: the root is where it was built
start_pass ==
    /\ asm_pc' = "resolving"
    /\ node_state' = [AllUnresolved EXCEPT !.root = "Resolved"]
    /\ world' = built
    /\ processed' = {} /\ current' = NoLink
    /\ result' = NoResult
    /\ UNCHANGED links
    /\ UNCHANGED part_vars /\ calls_unchanged_but_assembly

\* Assembly.resolve()
Assembly_resolve ==
    /\ asm_pc = "building"
    /\ start_pass
    /\ UNCHANGED previous

\* Assembly.resolve() on the assembly already resolved once
Assembly_resolve_again ==
    /\ asm_pc = "done" /\ result.status = "ok" /\ previous = NoResult
    /\ previous' = result
    /\ start_pass

\* an edge is taken whatever the state of its master
master_ready_unchecked(l) == TRUE

\* a master is read only when Resolved
master_ready(l) == node_state[l.master] = "Resolved"

\* the master anchor read on the part as built
master_anchor_as_built(l) ==
    built[l.master].anchors[unit_constraint.anchor_name_master]

\* the master anchor, where the pass has put it
master_anchor(l) ==
    world[l.master].anchors[unit_constraint.anchor_name_master]

\* the traversal takes an edge whose master is Resolved
edge_begin ==
    /\ asm_pc = "resolving" /\ current = NoLink
    /\ \E l \in links \ processed :
         /\ master_ready(l)
         /\ node_state[l.slave] # "Resolved"
         /\ current' = l
         /\ node_state' = [node_state EXCEPT ![l.slave] = "Resolving"]
    /\ UNCHANGED <<links, asm_pc, world, processed, result, previous>>
    /\ UNCHANGED part_vars /\ calls_unchanged_but_assembly

\* the solver called for the edge, its transform applied to the slave and
\* to the parts under it; the slave is Resolved once all its edges are done
edge_end ==
    /\ asm_pc = "resolving" /\ current # NoLink
    /\ \E t \in {transformation_from_2_anchors(
                    master_anchor(current),
                    world[current.slave].anchors[
                        unit_constraint.anchor_name_slave],
                    unit_constraint.angle, unit_constraint.distance)} :
       LET subtree == Below(current.slave)
           moved(n) == IF n \in subtree
                       THEN Part_transform(world[n], Square(t.mat))
                       ELSE world[n]
       IN IF t.status # "ok"
          THEN /\ result' = [status |-> t.status, mapping |-> <<>>]
               /\ asm_pc' = "done"
               /\ UNCHANGED <<world, processed, node_state>>
          ELSE /\ world' = [root |-> moved("root"), A |-> moved("A"),
                            B |-> moved("B")]
               /\ processed' = processed \cup {current}
               /\ node_state' =
                    [node_state EXCEPT ![current.slave] =
                        IF Incoming(current.slave) \subseteq processed'
                        THEN "Resolved" ELSE "Resolving"]
               /\ UNCHANGED <<result, asm_pc>>
    /\ current' = NoLink
    /\ UNCHANGED <<links, previous>>
    /\ UNCHANGED part_vars /\ calls_unchanged_but_assembly

\* an edge that leads back into a part already Resolved
back_edge == \E l \in links \ processed :
                 master_ready(l) /\ node_state[l.slave] = "Resolved"
\* an edge the traversal can still take
open_edge == \E l \in links \ processed :
                 master_ready(l) /\ node_state[l.slave] # "Resolved"

\* whatever was resolved is returned
resolve_result_best_effort ==
    [status |-> "ok", mapping |-> [n \in Parts |-> world[n]]]

\* what resolve returns when the traversal ends
resolve_result ==
    IF back_edge
    THEN [status |-> "CyclicAssemblyError", mapping |-> <<>>]
    ELSE IF \A n \in Parts : node_state[n] = "Resolved"
    THEN [status |-> "ok", mapping |-> [n \in Parts |-> world[n]]]
    ELSE IF ~(Parts \subseteq Below("root"))
    THEN [status |-> "DisconnectedAssemblyError", mapping |-> <<>>]
    ELSE [status |-> "CyclicAssemblyError", mapping |-> <<>>]

\* the traversal ends: on a violation, or with no edge left to take
resolve_end ==
    /\ asm_pc = "resolving" /\ current = NoLink
    /\ back_edge \/ ~open_edge
    /\ result' = resolve_result
    /\ asm_pc' = "done"
    /\ UNCHANGED <<links, node_state, world, processed, current, previous>>
    /\ UNCHANGED part_vars /\ calls_unchanged_but_assembly

InitAssembly ==
    /\ pc = "idle"
    /\ degenerate_fails = FALSE
    /\ anchor_master = NoAnchor /\ anchor_slave = NoAnchor
    /\ angle = 0 /\ distance = 0
    /\ transformation_mat = NoMat
    /\ new_anchor = NoAnchor
    /\ remated_mat = NoMat
    /\ shapes = <<>> /\ checked = 0
    /\ comp = NoCompound /\ solid = NoSolid
    /\ self_part = box_part /\ other_part = box_part
    /\ last_op = NoOp /\ op_count = 0
    /\ arrow = NoArrow
    /\ NoAssembly
    /\ NoTree

NextAssembly ==
    \/ Assembly_link
    \/ Assembly_resolve
    \/ Assembly_resolve_again
    \/ edge_begin
    \/ edge_end
    \/ resolve_end

SpecAssembly == InitAssembly /\ [][NextAssembly]_vars

Init ==
    /\ pc = "idle"
    /\ degenerate_fails \in BOOLEAN
    /\ anchor_master = NoAnchor /\ anchor_slave = NoAnchor
    /\ angle = 0 /\ distance = 0
    /\ transformation_mat = NoMat
    /\ new_anchor = NoAnchor
    /\ remated_mat = NoMat
    /\ shapes = <<>> /\ checked = 0
    /\ comp = NoCompound /\ solid = NoSolid
    /\ self_part = box_part /\ other_part = box_part
    /\ last_op = NoOp /\ op_count = 0
    /\ arrow = NoArrow
    /\ NoAssembly
    /\ NoTree

\* what an action of one group leaves alone: the other groups' variables
geometry_unchanged ==
    /\ UNCHANGED <<anchor_master, anchor_slave, angle, distance,
                   degenerate_fails, transformation_mat, new_anchor,
                   remated_mat>>
    /\ UNCHANGED caller_vars
compound_unchanged ==
    /\ UNCHANGED <<shapes, checked, comp, solid>>
    /\ UNCHANGED caller_vars

\* transformation_from_2_anchors(master, slave, angle, distance), called
\* with directions of the set Dirs
MateWith(Dirs) ==
    /\ pc = "idle"
    /\ \E mp \in MasterPositions, md \in Dirs,
          sp \in SlavePositions, sd \in Dirs,
          a \in Angles, d \in Distances :
        /\ Exact(md, sd)
        \* the treatment of a zero vector shows on a zero vector only: the
        \* other inputs are explored under one of the two treatments
        /\ degenerate_fails => (md = ZeroVec \/ sd = ZeroVec)
        /\ anchor_master' = [position |-> mp, direction |-> md]
        /\ anchor_slave' = [position |-> sp, direction |-> sd]
        /\ angle' = a /\ distance' = d
        /\ transformation_mat' =
             transformation_from_2_anchors(
                 [position |-> mp, direction |-> md],
                 [position |-> sp, direction |-> sd], a, d)
    /\ pc' = "mated"
    /\ UNCHANGED <<degenerate_fails, new_anchor, remated_mat>>
    /\ compound_unchanged

\* the slave anchor updated in place
Propagate_in_place ==
    /\ pc = "mated"
    /\ transformation_mat.status = "ok"
    /\ new_anchor' = transform_anchor(anchor_slave, transformation_mat.mat)
    /\ anchor_slave' = new_anchor'
    /\ pc' = "propagated"
    /\ UNCHANGED <<anchor_master, angle, distance,
                   degenerate_fails, transformation_mat, remated_mat>>
    /\ compound_unchanged

Mate == MateWith(Directions)

\* the same call on the base directions and their opposites
TurnDirections ==
    {Vec(c * b[1], c * b[2], c * b[3]) : c \in {-1, 1}, b \in BaseDirections}
MateTurn == MateWith(TurnDirections)

\* transform_anchor(anchor_slave, transformation_mat)
Propagate ==
    /\ pc = "mated"
    /\ transformation_mat.status = "ok"
    /\ new_anchor' = transform_anchor(anchor_slave, transformation_mat.mat)
    /\ pc' = "propagated"
    /\ UNCHANGED <<anchor_master, anchor_slave, angle, distance,
                   degenerate_fails, transformation_mat, remated_mat>>
    /\ compound_unchanged

\* transformation_from_2_anchors(master, transformed slave) with the defaults
Remate ==
    /\ pc = "propagated"
    /\ remated_mat' =
         transformation_from_2_anchors(anchor_master, new_anchor, 0, 0)
    /\ pc' = "remated"
    /\ UNCHANGED <<anchor_master, anchor_slave, angle, distance,
                   degenerate_fails, transformation_mat, new_anchor>>
    /\ compound_unchanged

\* compound(shapes): the call
compound_call ==
    /\ pc = "idle"
    /\ \E l \in SeqsUpTo(MaxShapes) : shapes' = l
    /\ checked' = 0
    /\ pc' = "checking"
    /\ UNCHANGED <<comp, solid>>
    /\ geometry_unchanged

\* the isinstance loop passing over an element that is no Shape
compound_check_skipping ==
    /\ pc = "checking"
    /\ checked < Len(shapes)
    /\ checked' = checked + 1
    /\ UNCHANGED <<pc, solid, shapes, comp>>
    /\ geometry_unchanged

\* lines 186-189: one turn of the isinstance loop
compound_check ==
    /\ pc = "checking"
    /\ checked < Len(shapes)
    /\ IF shapes[checked + 1].is_shape
       THEN /\ checked' = checked + 1
            /\ UNCHANGED <<pc, solid>>
       ELSE /\ solid' = [status |-> "ValueError", content |-> <<>>]
            /\ pc' = "compound_done"
            /\ UNCHANGED checked
    /\ UNCHANGED <<shapes, comp>>
    /\ geometry_unchanged

\* lines 190-192: the builder makes the empty compound
compound_make ==
    /\ pc = "checking"
    /\ checked = Len(shapes)
    /\ comp' = [made |-> TRUE, content |-> <<>>]
    /\ pc' = "adding"
    /\ UNCHANGED <<shapes, checked, solid>>
    /\ geometry_unchanged

\* lines 193-194: one turn of the bd.Add loop
compound_add ==
    /\ pc = "adding"
    /\ Len(comp.content) < Len(shapes)
    /\ comp' = [comp EXCEPT !.content =
                  Append(@, shapes[Len(comp.content) + 1].shape)]
    /\ UNCHANGED <<pc, shapes, checked, solid>>
    /\ geometry_unchanged

\* line 196
compound_return ==
    /\ pc = "adding"
    /\ Len(comp.content) = Len(shapes)
    /\ solid' = [status |-> "ok", content |-> comp.content]
    /\ pc' = "compound_done"
    /\ UNCHANGED <<shapes, checked, comp>>
    /\ geometry_unchanged

\* ------------------------------------------- JupyterRendererV.DisplayVector
\* shape.transform(tr): a point of the shape under the 4 x 3 matrix
transformed_point(p, tr) == VAdd(MatVec(Block3(tr), p), Translation(tr))

\* lines 22-49: a cylinder from the local origin up to 2/3 of the norm along
\* +Z, a cone from there to its apex at the norm, both transformed by the
\* matrix that mates the +Z anchor at (0, 0, 0) with {origin, direction}
DisplayVector_of(origin, direction) ==
    Value({
        LET cy_base == ZeroVec
            cy_top == <<Zero, Zero, Div(Mul(norm, Num(2)), Num(3))>>
            co_apex == <<Zero, Zero, Add(Div(Mul(norm, Num(2)), Num(3)),
                                         Div(norm, Num(3)))>>
        IN IF tr.status # "ok"
           THEN [status |-> tr.status, origin |-> origin,
                 direction |-> direction,
                 base |-> ZeroVec, neck |-> ZeroVec, tip |-> ZeroVec]
           ELSE [status |-> "ok", origin |-> origin, direction |-> direction,
                 base |-> transformed_point(cy_base, tr.mat),
                 neck |-> transformed_point(cy_top, tr.mat),
                 tip |-> transformed_point(co_apex, tr.mat)] :
        norm \in {Norm(direction)},
        tr \in {transformation_from_2_anchors(
                    [position |-> origin, direction |-> direction],
                    [position |-> Vec(0, 0, 0), direction |-> Vec(0, 0, 1)],
                    0, 0)}})

DisplayVector ==
    /\ pc = "idle"
    /\ \E origin \in MasterPositions, direction \in Directions :
         arrow' = DisplayVector_of(origin, direction)
    /\ pc' = "displayed"
    /\ UNCHANGED <<anchor_master, anchor_slave, angle, distance,
                   degenerate_fails, transformation_mat, new_anchor,
                   remated_mat, shapes, checked, comp, solid, part_vars,
                   asm_vars, tree_vars>>

Next ==
    \/ DisplayVector
    \/ Mate
    \/ Propagate
    \/ Remate
    \/ compound_call
    \/ compound_check
    \/ compound_make
    \/ compound_add
    \/ compound_return

Spec == Init /\ [][Next]_vars

\* ------------------------------------------------------- Tree (ui/tree.py)
\* lines 318-320: the extensions left out of the tree
excluded_extensions == {".pyc", ".txt"}

\* osvcad.ui.utils.get_file_extension: the suffix from the last dot on
get_file_extension(f) ==
    CASE f = "a.txt" -> ".txt"
      [] f = "bak.txt" -> ".txt"
      [] f = "b.py" -> ".py"
      [] OTHER -> ""

StrRank(f) == CHOOSE i \in 1..Len(NameOrder) : NameOrder[i] = f
\* sorted(names)
RECURSIVE sorted(_)
sorted(S) ==
    IF S = {} THEN <<>>
    ELSE LET first == CHOOSE x \in S : \A y \in S : StrRank(x) <= StrRank(y)
         IN <<first>> \o sorted(S \ {first})

listdir(files, directory) == files[directory]
join(directory, f) == Append(directory, f)

\* AppendItem for each name in turn; a folder gets SetItemHasChildren
RECURSIVE AppendItems(_, _, _)
AppendItems(names, directory, folder) ==
    IF names = <<>> THEN <<>>
    ELSE <<[label |-> Head(names), data |-> join(directory, Head(names)),
            folder |-> folder]>>
         \o AppendItems(Tail(names), directory, folder)

\* lines 171-210: what _load_dir appends to an item without children
appended(files, directory) ==
    LET files_and_dirs == listdir(files, directory)
        dirs == {f \in files_and_dirs :
                    f # "__pycache__" /\ isdir(files, join(directory, f))}
        plain == {f \in files_and_dirs :
                    f # "__pycache__" /\ ~isdir(files, join(directory, f))}
        kept(f) == get_file_extension(f) \notin excluded_extensions
    IN AppendItems(sorted(dirs), directory, TRUE)
       \o AppendItems(SelectSeq(sorted(plain), kept), directory, FALSE)

\* the items appended whether the node has children or not
Tree_load_dir_always(kids, item, directory, files) ==
    IF ~isdir(files, directory)
    THEN [status |-> "Exception", children |-> kids]
    ELSE [status |-> "ok",
          children |-> [kids EXCEPT
                          ![item] = @ \o appended(files, directory)]]

\* lines 153-210: kids are the children of every item, status the outcome
Tree_load_dir(kids, item, directory, files) ==
    IF ~isdir(files, directory)
    THEN [status |-> "Exception", children |-> kids]
    ELSE IF Len(kids[item]) = 0
    THEN [status |-> "ok",
          children |-> [kids EXCEPT ![item] = appended(files, directory)]]
    ELSE [status |-> "ok", children |-> kids]

IsPrefix(p, q) == Len(p) <= Len(q) /\ SubSeq(q, 1, Len(p)) = p
\* item.DeleteChildren(tree): the children go with all that is below them
DeleteChildren(kids, item) ==
    [q \in Paths |-> IF IsPrefix(item, q) THEN <<>> ELSE kids[q]]

Labels(items) == {items[i].label : i \in 1..Len(items)}
\* the items that can be expanded and collapsed: the root and the folders
is_folder_item(item) ==
    /\ has_root
    /\ IF item = <<>> THEN TRUE
       ELSE \E i \in 1..Len(children[Front(item)]) :
               /\ children[Front(item)][i].label = Last(item)
               /\ children[Front(item)][i].folder
\* GetPyData(item)
GetPyData(item) ==
    IF item = <<>> THEN root_data
    ELSE LET siblings == children[Front(item)]
         IN siblings[CHOOSE i \in 1..Len(siblings) :
                        siblings[i].label = Last(item)].data

Handled(kind, item, sender, status) ==
    [kind |-> kind, item |-> item, sender |-> sender, status |-> status,
     before |-> children, fs |-> fs]

others_unchanged ==
    UNCHANGED <<pc, anchor_master, anchor_slave, angle, distance,
                degenerate_fails, transformation_mat, new_anchor,
                remated_mat, shapes, checked, comp, solid, part_vars,
                arrow, asm_vars>>
fs_unchanged == UNCHANGED <<fs, fs_changes>>
root_unchanged == UNCHANGED <<model_root_folder, has_root, root_data>>

\* lines 272-282
TreeItemExpanding ==
    /\ \E item \in Paths :
         /\ is_folder_item(item)
         /\ \E r \in {Tree_load_dir(children, item, GetPyData(item), fs)} :
              /\ children' = r.children
              /\ tree_event' = Handled("expand", item, "", r.status)
    /\ fs_unchanged /\ root_unchanged /\ others_unchanged

\* lines 284-291
TreeItemCollapsing ==
    /\ \E item \in Paths :
         /\ is_folder_item(item)
         /\ children' = DeleteChildren(children, item)
         /\ tree_event' = Handled("collapse", item, "", "ok")
    /\ fs_unchanged /\ root_unchanged /\ others_unchanged

\* the reload asked for without deleting the children first
tree_modified_listener_keeping_children ==
    /\ \E tree_object_reference \in {"self", "other"} :
         IF tree_object_reference = "self"
         THEN /\ tree_event' = Handled("tree_modified", <<>>, "self", "ok")
              /\ UNCHANGED children
         ELSE IF ~has_root
         THEN /\ tree_event' =
                   Handled("tree_modified", <<>>, "other", "AttributeError")
              /\ UNCHANGED children
         ELSE \E r \in {Tree_load_dir(children, <<>>,
                                      model_root_folder, fs)} :
                /\ children' = r.children
                /\ tree_event' =
                     Handled("tree_modified", <<>>, "other", r.status)
    /\ fs_unchanged /\ root_unchanged /\ others_unchanged

Senders == {"self", "other"}
\* lines 95-107: GetRootItem() is None as long as no root was added
tree_modified_listener ==
    /\ \E tree_object_reference \in Senders :
         IF tree_object_reference = "self"
         THEN /\ tree_event' = Handled("tree_modified", <<>>, "self", "ok")
              /\ UNCHANGED children
         ELSE IF ~has_root
         THEN /\ tree_event' =
                   Handled("tree_modified", <<>>, "other", "AttributeError")
              /\ UNCHANGED children
         ELSE \E r \in {Tree_load_dir(DeleteChildren(children, <<>>), <<>>,
                                      model_root_folder, fs)} :
                /\ children' = r.children
                /\ tree_event' =
                     Handled("tree_modified", <<>>, "other", r.status)
    /\ fs_unchanged /\ root_unchanged /\ others_unchanged

RootFolders == {<<>>, <<"docs">>}
\* lines 91-93 and 130-151: the model has a new root folder and the tree is
\* told; set_root_dir raises on what is no directory, before any change
on_root_folder_changed ==
    /\ \E root_directory \in RootFolders :
         /\ model_root_folder' = root_directory
         /\ IF ~isdir(fs, root_directory)
            THEN /\ tree_event' =
                      Handled("root_folder_changed", <<>>, "", "Exception")
                 /\ UNCHANGED <<has_root, root_data, children>>
            ELSE /\ has_root' = TRUE
                 /\ root_data' = root_directory
                 /\ children' = Tree_load_dir(NoChildren, <<>>,
                                              root_directory, fs).children
                 /\ tree_event' =
                      Handled("root_folder_changed", <<>>, "", "ok")
    /\ fs_unchanged /\ others_unchanged

\* the folders are changed from outside the program: a name appears
fs_create ==
    /\ fs_changes < MaxChanges
    /\ \E p \in Paths, f \in Names :
         /\ isdir(fs, p)
         /\ f \notin fs[p]
         /\ f \in DirNames \ {"__pycache__"} => Len(p) < MaxDepth
         /\ fs' = [fs EXCEPT ![p] = @ \cup {f}]
    /\ fs_changes' = fs_changes + 1
    /\ UNCHANGED <<children, tree_event>>
    /\ root_unchanged /\ others_unchanged

\* a name disappears, with all that is below it
fs_remove ==
    /\ fs_changes < MaxChanges
    /\ \E p \in Paths, f \in Names :
         /\ isdir(fs, p)
         /\ f \in fs[p]
         /\ fs' = [q \in Paths |->
                     IF q = p THEN fs[p] \ {f}
                     ELSE IF IsPrefix(join(p, f), q) THEN {}
                     ELSE fs[q]]
    /\ fs_changes' = fs_changes + 1
    /\ UNCHANGED <<children, tree_event>>
    /\ root_unchanged /\ others_unchanged

InitTree ==
    /\ pc = "idle"
    /\ degenerate_fails = FALSE
    /\ anchor_master = NoAnchor /\ anchor_slave = NoAnchor
    /\ angle = 0 /\ distance = 0
    /\ transformation_mat = NoMat
    /\ new_anchor = NoAnchor
    /\ remated_mat = NoMat
    /\ shapes = <<>> /\ checked = 0
    /\ comp = NoCompound /\ solid = NoSolid
    /\ self_part = box_part /\ other_part = box_part
    /\ last_op = NoOp /\ op_count = 0
    /\ arrow = NoArrow
    /\ NoAssembly
    /\ NoTree

NextTree ==
    \/ on_root_folder_changed
    \/ TreeItemExpanding
    \/ TreeItemCollapsing
    \/ tree_modified_listener
    \/ fs_create
    \/ fs_remove

SpecTree == InitTree /\ [][NextTree]_vars

InitTurn == Init /\ ~degenerate_fails
NextTurn ==
    \/ MateTurn
    \/ Propagate
    \/ Remate
SpecTurn == InitTurn /\ [][NextTurn]_vars

\* ============================================================ properties
Sub3(v, w) == VAdd(v, VNeg(w))
Called == pc \in {"mated", "propagated", "remated"}
Propagated == pc \in {"propagated", "remated"}
ValidPair ==
    anchor_master.direction # ZeroVec /\ anchor_slave.direction # ZeroVec
Collinear == Cross(anchor_master.direction, anchor_slave.direction) = ZeroVec
SameWay == Collinear /\ Gt(Dot(anchor_master.direction,
                               anchor_slave.direction), Zero)
Opposite == Collinear /\ Gt(Zero, Dot(anchor_master.direction,
                                      anchor_slave.direction))

Normalize(v) == VScale(v, Div(One, Norm(v)))
Identity3 == <<<<One, Zero, Zero>>, <<Zero, One, Zero>>, <<Zero, Zero, One>>>>
Identity3x4 == Rows3(Identity4)
Gram(R) == <<<<Dot(R[1], R[1]), Dot(R[1], R[2]), Dot(R[1], R[3])>>,
             <<Dot(R[2], R[1]), Dot(R[2], R[2]), Dot(R[2], R[3])>>,
             <<Dot(R[3], R[1]), Dot(R[3], R[2]), Dot(R[3], R[3])>>>>
Det3(R) == Dot(R[1], Cross(R[2], R[3]))
ProperRotation(R) ==
    /\ Gram(R) = Identity3
    /\ Gram(Transpose3(R)) = Identity3
    /\ Det3(R) = One

\* C1: for anchors with non-zero directions the call returns a matrix, and
\* the slave anchor transformed by it sits at master.position +
\* normalize(master.direction) * distance (the master position itself when
\* distance is 0), for collinear and non-collinear pairs alike.
C1_MatingPosition ==
    (Called /\ ValidPair) =>
        /\ transformation_mat.status = "ok"
        /\ Propagated =>
             /\ new_anchor.position =
                  VAdd(anchor_master.position,
                       VScale(Normalize(anchor_master.direction),
                              Num(distance)))
             /\ distance = 0 => new_anchor.position = anchor_master.position

C1_Witness ==
    /\ pc = "propagated" /\ ValidPair /\ Collinear
    /\ distance # 0 /\ angle # 0
    /\ anchor_master.direction = Vec(6, 8, 0)
    /\ new_anchor.position # anchor_master.position
    /\ new_anchor.position # anchor_slave.position

\* C2: for every valid pair the transformed slave direction points exactly
\* opposite to the master direction (read up to length: its unit vector is
\* minus the master's unit vector).
C2_DirectionContract ==
    (Propagated /\ ValidPair) =>
        Normalize(new_anchor.direction) =
            VNeg(Normalize(anchor_master.direction))

\* C3: anti-parallel directions of any non-zero lengths get angle_correction
\* 0 and parallel same-way directions get pi.
C3_DegenerateClassification ==
    (Called /\ ValidPair) =>
        /\ Opposite => angle_correction(anchor_master.direction,
                                        anchor_slave.direction) = ZeroAngle
        /\ SameWay => angle_correction(anchor_master.direction,
                                       anchor_slave.direction) = Pi

\* C4: the 3x3 block of every matrix returned for anchors with non-zero
\* directions is a proper rotation: orthonormal rows and columns,
\* determinant +1.
C4_ProperRotation ==
    /\ (Called /\ ValidPair) =>
         /\ transformation_mat.status = "ok"
         /\ ProperRotation(Block3(transformation_mat.mat))
    /\ (pc = "remated" /\ ValidPair) =>
         /\ remated_mat.status = "ok"
         /\ ProperRotation(Block3(remated_mat.mat))

C4_Witness ==
    /\ pc = "remated" /\ ValidPair
    /\ anchor_master.direction = Vec(3, 4, 0)
    /\ anchor_slave.direction = Vec(2, 0, 0)
    /\ angle = 90
    /\ Block3(transformation_mat.mat) # Identity3
    /\ ProperRotation(Block3(transformation_mat.mat))

\* C5: equal directions with angle 0 and distance 0 give a matrix without
\* NaN whose block is the rotation by pi about an axis perpendicular to the
\* master direction (a proper rotation that reverses the master direction)
\* and that maps the slave position onto the master position.
C5_ParallelEqual ==
    (Called /\ ValidPair /\ angle = 0 /\ distance = 0
       /\ anchor_master.direction = anchor_slave.direction) =>
        /\ transformation_mat.status = "ok"
        /\ ~MatHasNaN(transformation_mat.mat)
        /\ ProperRotation(Block3(transformation_mat.mat))
        /\ MatVec(Block3(transformation_mat.mat), anchor_master.direction) =
             VNeg(anchor_master.direction)
        /\ VAdd(MatVec(Block3(transformation_mat.mat), anchor_slave.position),
                Translation(transformation_mat.mat)) = anchor_master.position

C5_Witness ==
    /\ pc = "mated" /\ angle = 0 /\ distance = 0
    /\ anchor_master.direction = Vec(1, 0, 0)
    /\ anchor_slave.direction = Vec(1, 0, 0)
    /\ anchor_master.position # anchor_slave.position
    /\ transformation_mat.status = "ok"

C7_ZeroSlaveFails ==
    (Called /\ anchor_slave.direction = ZeroVec
            /\ anchor_master.direction # ZeroVec) =>
        /\ transformation_mat.status # "ok"
        /\ transformation_mat.mat = <<>>

\* C8: with a zero master direction the call fails with an error and
\* returns no matrix, for every slave anchor, angle and distance.
C8_ZeroMasterFails ==
    (Called /\ anchor_master.direction = ZeroVec) =>
        /\ transformation_mat.status \in
             {"AssertionError", "DegenerateInputError"}
        /\ transformation_mat.mat = <<>>

C8_Witness ==
    /\ pc = "mated" /\ anchor_master.direction = ZeroVec
    /\ anchor_slave.direction # ZeroVec
    /\ ~degenerate_fails
    /\ transformation_mat.status = "AssertionError"

\* C9: transform_anchor returns position' = R position + t and
\* direction' = R direction; the translation never reaches the direction,
\* so a pure translation leaves the direction unchanged.
C9_TransformAnchor ==
    Propagated =>
        LET R == Block3(transformation_mat.mat)
            t == Translation(transformation_mat.mat)
        IN /\ new_anchor.position = VAdd(MatVec(R, anchor_slave.position), t)
           /\ new_anchor.direction = MatVec(R, anchor_slave.direction)
           /\ R = Identity3 => new_anchor.direction = anchor_slave.direction

C9_Witness ==
    /\ pc = "propagated" /\ ValidPair
    /\ Block3(transformation_mat.mat) = Identity3
    /\ Translation(transformation_mat.mat) # ZeroVec
    /\ new_anchor.direction = anchor_slave.direction
    /\ new_anchor.position # anchor_slave.position

\* C10: compound fails with an error when an element is no Shape, and all
\* elements are checked before the compound is made, so a failing call
\* builds nothing; with Shapes only (the empty list included) it returns a
\* Solid holding exactly the given shapes, in order; the list given is not
\* modified.
AllShapes == \A i \in 1..Len(shapes) : shapes[i].is_shape
C10_CompoundState ==
    /\ comp.made => AllShapes
    /\ solid.status = "ValueError" => (~AllShapes /\ comp = NoCompound)
    /\ solid.status = "ok" =>
         /\ AllShapes
         /\ Len(solid.content) = Len(shapes)
         /\ \A i \in 1..Len(shapes) : solid.content[i] = shapes[i].shape
    /\ pc = "compound_done" =>
         solid.status = (IF AllShapes THEN "ok" ELSE "ValueError")
C10_Compound ==
    /\ []C10_CompoundState
    /\ [][(pc \in {"checking", "adding"}) => (shapes' = shapes)]_vars

C10_Witness ==
    /\ pc = "compound_done"
    /\ Len(shapes) = 3 /\ shapes[1].is_shape /\ ~shapes[3].is_shape
    /\ solid.status = "ValueError" /\ comp = NoCompound

\* ------------------------------------------------------------------ Part
PlacedOk == last_op.kind = "place" /\ last_op.status = "ok"
PlaceFailed == last_op.kind = "place" /\ last_op.status = "UnknownAnchorError"

C11_State ==
    PlacedOk =>
        LET master == self_part.anchors[last_op.self_anchor]
            slave == last_op.before.anchors[last_op.other_anchor]
        IN \A t \in {transformation_from_2_anchors(
                         master, slave, last_op.angle, last_op.distance)} :
           /\ t.status = "ok"
           /\ DOMAIN other_part.anchors = DOMAIN last_op.before.anchors
           /\ \A n \in DOMAIN last_op.before.anchors :
                 other_part.anchors[n] =
                     transform_anchor(last_op.before.anchors[n], t.mat)
           /\ other_part.geometry =
                 MatMul(Square(t.mat), last_op.before.geometry)
           /\ other_part.anchors[last_op.other_anchor].position =
                 VAdd(master.position,
                      VScale(Normalize(master.direction),
                             Num(last_op.distance)))
AbsentName ==
    \/ last_op.self_anchor \notin DOMAIN self_part.anchors
    \/ last_op.other_anchor \notin DOMAIN last_op.before.anchors
C12_State ==
    (last_op.kind = "place" /\ AbsentName) =>
        /\ last_op.status = "UnknownAnchorError"
        /\ other_part = last_op.before
C12_UnknownAnchor ==
    /\ []C12_State
    /\ [][(last_op'.kind = "place"
            /\ last_op'.status = "UnknownAnchorError")
           => (self_part' = self_part /\ other_part' = other_part)]_vars
C12_Witness ==
    /\ PlaceFailed
    /\ last_op.self_anchor = "top" /\ last_op.other_anchor = "missing"
    /\ last_op.before # box_part

\* C16: after any sequence of translate, rotate and place the anchor names
\* are those given at construction, and every anchor is its constructed value
\* transformed by the composition of transforms applied to the geometry
C16_AnchorsFollowGeometry ==
    /\ DOMAIN other_part.anchors = DOMAIN box_anchors
    /\ \A n \in DOMAIN box_anchors :
         /\ other_part.anchors[n].position =
               VAdd(MatVec(Block3(other_part.geometry),
                           box_anchors[n].position),
                    Translation(other_part.geometry))
         /\ other_part.anchors[n].direction =
               MatVec(Block3(other_part.geometry), box_anchors[n].direction)
C16_Witness ==
    /\ op_count = MaxOps
    /\ PlacedOk
    /\ last_op.before # box_part
    /\ Block3(other_part.geometry) # Identity3
    /\ Translation(other_part.geometry) # ZeroVec

\* ------------------------------------------------- angle and distance
\* the rotation by a about the line through master.position along
\* master.direction, followed by the translation normalize(direction) * d
N(master, a, d) ==
    MatMul(translation_matrix(VScale(Normalize(master.direction), Num(d))),
           MatMul(translation_matrix(master.position),
                  MatMul(rotation_matrix(Radians(a), master.direction),
                         translation_matrix(VNeg(master.position)))))
After(M, mat) == Rows3(MatMul(M, Square(mat)))

\* C17: the matrix returned for (angle, distance) is N(angle, distance)
\* composed after the matrix returned for (0, 0); N(0, 0) is the identity;
\* and the matrix for (angle + a2, distance + d2) is N(a2, d2) composed
\* after the matrix for (angle, distance)
C17_AngleDistanceAfterOpposition ==
    (pc = "mated" /\ ValidPair) =>
        \A opposed \in {transformation_from_2_anchors(anchor_master,
                                                       anchor_slave, 0, 0)} :
           /\ transformation_mat.status = "ok" /\ opposed.status = "ok"
           /\ transformation_mat.mat =
                 After(N(anchor_master, angle, distance), opposed.mat)
           /\ N(anchor_master, 0, 0) = Identity4
           /\ \A a2 \in Angles, d2 \in Distances :
                 transformation_from_2_anchors(
                     anchor_master, anchor_slave,
                     angle + a2, distance + d2).mat =
                 After(N(anchor_master, a2, d2), transformation_mat.mat)
C17_Witness ==
    /\ pc = "mated" /\ ValidPair /\ ~Collinear
    /\ angle = 90 /\ distance = 1
    /\ anchor_master.position # ZeroVec
    /\ N(anchor_master, angle, distance) # Identity4
    /\ transformation_mat.mat #
         transformation_from_2_anchors(anchor_master, anchor_slave, 0, 0).mat

\* C18: when the cross product of the two directions is the zero vector and
\* the master direction is not, the rotation axis is a non-zero vector
\* perpendicular to the master direction: cross(X, master.direction), or
\* cross(Y, master.direction) when the master direction is collinear with X
C18_DegenerateAxis ==
    (Called /\ Collinear /\ anchor_master.direction # ZeroVec) =>
        LET m == anchor_master.direction
            axis == axis_dir_of(m, anchor_slave.direction)
        IN /\ axis # ZeroVec
           /\ Dot(axis, m) = Zero
           /\ axis = IF Cross(Vec(1, 0, 0), m) = ZeroVec
                     THEN Cross(Vec(0, 1, 0), m)
                     ELSE Cross(Vec(1, 0, 0), m)
C18_Witness ==
    /\ pc = "mated" /\ Collinear /\ ValidPair
    /\ anchor_master.direction = Vec(-2, 0, 0)
    /\ axis_dir_of(anchor_master.direction, anchor_slave.direction)
         = Vec(0, 0, 2)

\* C19: once a call was made with them, the master anchor, the slave anchor
\* and the matrix handed to transform_anchor keep their values through the
\* calls that follow, successful or failing; the transformed anchor is a
\* record of its own
C19_InputsKept ==
    [][/\ (pc \in {"mated", "propagated"}) =>
            /\ anchor_master' = anchor_master
            /\ anchor_slave' = anchor_slave
            /\ transformation_mat' = transformation_mat
       /\ (pc = "propagated") => (new_anchor' = new_anchor)]_vars
C19_Witness ==
    /\ pc = "remated"
    /\ new_anchor # anchor_slave
    /\ new_anchor # NoAnchor
    /\ remated_mat.status = "ok"
    /\ anchor_slave.direction # ZeroVec

\* ----------------------------------------------------------- DisplayVector
\* C20: the arrow displayed has its base at origin and points along
\* direction: from the base, the neck and the tip lie the way direction
\* points, not the opposite way
C20_ArrowAlongDirection ==
    (pc = "displayed" /\ arrow.status = "ok") =>
        /\ arrow.base = arrow.origin
        /\ Normalize(Sub3(arrow.tip, arrow.base)) = Normalize(arrow.direction)
        /\ Normalize(Sub3(arrow.neck, arrow.base))
             = Normalize(arrow.direction)

\* -------------------------------------------------------------- Assembly
Rank(st) == CASE st = "Unresolved" -> 0
              [] st = "Resolving" -> 1
              [] st = "Resolved" -> 2
Link(m, sl) == [master |-> m, slave |-> sl]
Resolving == asm_pc = "resolving"
ResolvedOk == asm_pc = "done" /\ result.status = "ok"

\* C13: during a resolution pass no node goes back from Resolved to
\* Resolving or Unresolved, or from Resolving to Unresolved, and the edge
\* being applied, like every edge applied before it, has a master that is
\* Resolved
C13_MasterResolved ==
    Resolving =>
        /\ current # NoLink => node_state[current.master] = "Resolved"
        /\ \A l \in processed : node_state[l.master] = "Resolved"
C13_TopologicalOrder ==
    /\ []C13_MasterResolved
    /\ [][Resolving =>
            \A n \in PartNames :
                Rank(node_state'[n]) >= Rank(node_state[n])]_vars
C13_Witness ==
    /\ Resolving
    /\ current = Link("A", "B")
    /\ Link("root", "A") \in processed
    /\ node_state = [root |-> "Resolved", A |-> "Resolved",
                     B |-> "Resolving"]

SingleMaster == \A n \in PartNames : Cardinality(Incoming(n)) <= 1
Chain == links = {Link("root", "A"), Link("A", "B")}
Acyclic == \A l \in links : l.master \notin Below(l.slave)
AllReachable == Parts \subseteq Below("root")
C15_FailFast ==
    asm_pc = "done" =>
        /\ (result.status = "ok") <=> (Acyclic /\ AllReachable)
        /\ result.status \in {"ok", "CyclicAssemblyError",
                              "DisconnectedAssemblyError"}
        /\ result.status = "ok" => DOMAIN result.mapping = Parts
        /\ result.status # "ok" => result.mapping = <<>>
        /\ (Acyclic /\ ~AllReachable) =>
               result.status = "DisconnectedAssemblyError"
        /\ (AllReachable /\ ~Acyclic) =>
               result.status = "CyclicAssemblyError"
C15_Witness ==
    /\ asm_pc = "done"
    /\ result.status = "CyclicAssemblyError"
    /\ result.mapping = <<>>
    /\ processed # {}
    /\ world # built

\* ------------------------------------------------------------------- C21
\* what a directory shows: every name listed but '__pycache__' and the files
\* with an excluded extension, once each, the directories first then the
\* files, each group in increasing order
IsListing(items, files, directory) ==
    /\ Labels(items) =
         {f \in files[directory] :
             /\ f # "__pycache__"
             /\ f \in DirNames \/ get_file_extension(f) \notin excluded_extensions}
    /\ \A i \in 1..Len(items) :
         /\ items[i].folder = (items[i].label \in DirNames)
         /\ items[i].data = Append(directory, items[i].label)
    /\ \A i \in 1..Len(items), j \in 1..Len(items) :
         i < j => \/ items[i].folder /\ ~items[j].folder
                  \/ /\ items[i].folder = items[j].folder
                     /\ StrRank(items[i].label) < StrRank(items[j].label)

NoDuplicates(items) ==
    \A i \in 1..Len(items), j \in 1..Len(items) :
        i # j => items[i].label # items[j].label

Expanding == tree_event.kind = "expand"
Collapsed == tree_event.kind = "collapse"
\* the directory of the item of the event was a directory at the event
DirectoryThere == isdir(tree_event.fs, GetPyData(tree_event.item))

\* C21: no item ever holds the same child twice; expanding an item that has
\* children adds nothing; collapsing an item leaves it without children;
\* expanding an item without children, its directory being there, gives it
\* the listing of the directory as it is then (directories first then
\* files, each sorted, without '__pycache__' and without the files whose
\* extension is excluded) and touches no other item
C21_LazyLoading ==
    /\ \A item \in Paths : NoDuplicates(children[item])
    /\ Expanding /\ tree_event.before[tree_event.item] # <<>> =>
         children = tree_event.before
    /\ Collapsed => children[tree_event.item] = <<>>
    /\ Expanding /\ tree_event.before[tree_event.item] = <<>>
       /\ DirectoryThere =>
         /\ tree_event.status = "ok"
         /\ IsListing(children[tree_event.item], tree_event.fs,
                      GetPyData(tree_event.item))
         /\ \A other \in Paths \ {tree_event.item} :
              children[other] = tree_event.before[other]

\* the root, loaded when it was set, was collapsed; the folder changed; the
\* root is expanded again and shows the new name, not the excluded ones
C21_Witness ==
    /\ Expanding /\ DirectoryThere
    /\ tree_event.item = <<>>
    /\ tree_event.before[<<>>] = <<>>
    /\ root_data = <<>>
    /\ {"__pycache__", "a.txt", "b.py", "docs"} \subseteq fs[<<>>]
    /\ "b.py" \in Labels(children[<<>>])
    /\ Len(children[<<>>]) = 3

\* ------------------------------------------------------------------- C22
Modified(sender) ==
    tree_event.kind = "tree_modified" /\ tree_event.sender = sender

\* C22: a tree_modified message sent by the tree itself leaves its items as
\* they were; one sent by another tree, the tree having a root and the
\* model's root folder being a directory, leaves the root with the listing
\* of the model's root folder as it is then, and nothing below its children
C22_TreeModified ==
    /\ Modified("self") => children = tree_event.before
    /\ Modified("other") /\ has_root
       /\ isdir(tree_event.fs, model_root_folder) =>
         /\ tree_event.status = "ok"
         /\ IsListing(children[<<>>], tree_event.fs, model_root_folder)
         /\ \A item \in Paths \ {<<>>} : children[item] = <<>>

\* another tree's message reaches a tree whose root shows a folder as it was
\* before a name was added, with a subfolder expanded
C22_Witness ==
    /\ Modified("other") /\ has_root
    /\ isdir(tree_event.fs, model_root_folder)
    /\ tree_event.before[<<"docs">>] # <<>>
    /\ "b.py" \notin Labels(tree_event.before[<<>>])
    /\ "b.py" \in Labels(children[<<>>])
    /\ "a.txt" \in fs[<<>>]

====
